---- MODULE Spec2Model ----
(***************************************************************************)
(* Model of cloudkitty/collector/gnocchi.py (GnocchiCollector): the filter *)
(* builder, the time filter, the resource resolver with its revision       *)
(* fallback, the metric expander and the normalizer/orchestrator.          *)
(*                                                                         *)
(* Python values are represented as follows.                               *)
(*   None (timestamps, metric values)  the integer None (-1)               *)
(*   None / '' (resource_id, project_id)  the empty string                 *)
(*   a filter dict                     a record tagged by k:               *)
(*        {}                   [k |-> "empty"]                             *)
(*        {cop: {field: v}}    [k |-> "cmp", op, field, value]             *)
(*        {lop: [f1, ...]}     [k |-> "log", op, children]                 *)
(*   a Python list given as a filter argument  [k |-> "list", items]       *)
(*   any other argument (None, ...)            [k |-> "none"]              *)
(*   a resource / record dict          a function from key strings         *)
(*   a resource name                   a sequence of tokens, "_" and "."   *)
(*                                     being tokens of their own           *)
(***************************************************************************)
EXTENDS Integers, Sequences, FiniteSets, TLC

VARIABLES
    store,      \* the remote store: sequence of resource revision rows
    measures,   \* the remote store: metric handle -> sequence of points
    pc,         \* "idle" before the call, "done" after it
    call,       \* the call that was made and its arguments
    ret         \* what the call returned or raised

vars == <<store, measures, pc, call, ret>>

---------------------------------------------------------------------------
(* Bounds of the model *)

\* timestamps of rows and windows are 1..MaxTime
MaxTime == 2
\* timestamps of the time-filter specification are 1..MaxFilterTime
MaxFilterTime == 3
\* longest argument list given to extend_filter
MaxArgs == 3
\* number of nested get_resources frames after which Python gives up
MaxDepth == 3
\* largest metric value
MaxValue == 2

None == -1

Truthy(x) == x # None /\ x # 0
StrTruthy(s) == s # ""

---------------------------------------------------------------------------
(* Filter Expression Builder *)

Empty == [k |-> "empty"]
Cmp(cop, field, value) == [k |-> "cmp", op |-> cop, field |-> field, value |-> value]
Log(lop, children) == [k |-> "log", op |-> lop, children |-> children]
List(items) == [k |-> "list", items |-> items]
NotAFilter == [k |-> "none"]

IsDict(f) == f.k \in {"empty", "cmp", "log"}
\* Python truthiness of a dict: a dict is false exactly when it is {}
DictTruthy(f) == IsDict(f) /\ f.k # "empty"

\* lines 111-116: the loop building filter_list
RECURSIVE filter_list(_)
filter_list(args) ==
    IF Len(args) = 0 THEN <<>>
    ELSE LET cur_filter == Head(args)
             rest == filter_list(Tail(args))
         IN  IF DictTruthy(cur_filter) THEN <<cur_filter>> \o rest
             ELSE IF cur_filter.k = "list" THEN cur_filter.items \o rest
             ELSE rest

extend_filter(args, lop) ==
    LET fl == filter_list(args)
    IN  IF Len(fl) > 1 THEN Log(lop, fl)
        ELSE IF Len(fl) > 0 THEN fl[1] ELSE Empty

\* kwargs is the sequence of <<key, value>> pairs in the order of sorted(kwargs)
gen_filter(cop, lop, kwargs) ==
    LET q_filter == [i \in 1..Len(kwargs) |-> Cmp(cop, kwargs[i][1], kwargs[i][2])]
    IN  IF Len(kwargs) > 1 THEN extend_filter(<<List(q_filter)>>, lop)
        ELSE IF Len(kwargs) > 0 THEN q_filter[1] ELSE Empty

---------------------------------------------------------------------------
(* Temporal Window Resolver *)

_generate_time_filter(start, end, with_revision) ==
    LET first == <<extend_filter(
                     <<gen_filter("=", "and", <<<<"ended_at", None>>>>),
                       gen_filter(">=", "and", <<<<"ended_at", start>>>>)>>,
                     "or")>>
        bounded == <<extend_filter(
                       <<gen_filter("=", "and", <<<<"ended_at", None>>>>),
                         gen_filter("<=", "and", <<<<"ended_at", end>>>>)>>,
                       "or"),
                     gen_filter("<=", "and", <<<<"started_at", end>>>>)>>
        revision == <<gen_filter("<=", "and", <<<<"revision_start", end>>>>)>>
    IN  IF Truthy(end)
        THEN first \o bounded \o (IF with_revision THEN revision ELSE <<>>)
        ELSE first

---------------------------------------------------------------------------
(* The remote store, as the collector's searches see it *)

\* one comparison of the query language on one row; a comparison with an
\* unset (null) attribute other than equality is false
CmpHolds(f, row) ==
    LET a == row[f.field]
    IN  CASE f.op = "="  -> a = f.value
          [] f.op = ">=" -> a # None /\ f.value # None /\ a >= f.value
          [] f.op = "<=" -> a # None /\ f.value # None /\ a <= f.value

RECURSIVE Matches(_, _)
Matches(f, row) ==
    CASE f.k = "empty" -> TRUE
      [] f.k = "cmp"   -> CmpHolds(f, row)
      [] f.k = "log"   ->
            IF f.op = "and"
            THEN \A i \in 1..Len(f.children) : Matches(f.children[i], row)
            ELSE \E i \in 1..Len(f.children) : Matches(f.children[i], row)

\* a revision row of a resource, as the store returns it
Row(id, type, project_id, started_at, ended_at, revision_start, revision_end, metrics) ==
    [id |-> id, type |-> type, project_id |-> project_id,
     started_at |-> started_at, ended_at |-> ended_at,
     revision_start |-> revision_start, revision_end |-> revision_end,
     metrics |-> metrics]

Generic == <<"generic">>

\* search_opts of lines 217-222: history/limit/sorts when resource_id is set,
\* dict() otherwise (no history, no limit, the store's own order)
SearchOpts(resource_id, reverse_revision) ==
    IF StrTruthy(resource_id)
    THEN [history |-> TRUE, limit |-> 1,
          sorts |-> IF ~reverse_revision THEN "revision_start:desc"
                    ELSE "revision_start:asc"]
    ELSE [history |-> FALSE, limit |-> 0, sorts |-> "none"]

\* insertion of row r into a sequence sorted by revision_start
RECURSIVE Insert(_, _, _)
Insert(r, sorted, desc) ==
    IF Len(sorted) = 0 THEN <<r>>
    ELSE LET h == Head(sorted)
             before == IF desc THEN r.revision_start > h.revision_start
                       ELSE r.revision_start < h.revision_start
         IN  IF before THEN <<r>> \o sorted
             ELSE <<h>> \o Insert(r, Tail(sorted), desc)

RECURSIVE SortRows(_, _)
SortRows(rows, desc) ==
    IF Len(rows) = 0 THEN <<>>
    ELSE Insert(rows[Len(rows)], SortRows(SubSeq(rows, 1, Len(rows) - 1), desc), desc)

\* self._conn.resource.search(resource_type=..., query=..., **search_opts):
\* without history only the current revision of each resource is searched,
\* with history every revision, the current one included; the 'generic'
\* kind holds resources of every type
Search(st, resource_type, query, opts) ==
    LET found == SelectSeq(st, LAMBDA r :
                    /\ (opts.history \/ r.revision_end = None)
                    /\ (resource_type = Generic \/ r.type = resource_type)
                    /\ Matches(query, r))
        ordered == IF opts.sorts = "none" THEN found
                   ELSE SortRows(found, opts.sorts = "revision_start:desc")
    IN  IF opts.limit > 0 /\ Len(ordered) > opts.limit
        THEN SubSeq(ordered, 1, opts.limit)
        ELSE ordered

---------------------------------------------------------------------------
(* Static tables, lines 38-70 *)

Compute == <<"compute">>
Image == <<"image">>
Volume == <<"volume">>
NetworkBwOut == <<"network", ".", "bw", ".", "out">>
NetworkBwIn == <<"network", ".", "bw", ".", "in">>
Instance == <<"instance">>
InstanceNetworkInterface == <<"instance", "_", "network", "_", "interface">>

collector_name == "gnocchi"

MappedNames == {Compute, Image, Volume, NetworkBwOut, NetworkBwIn}

\* retrieve_mappings.get(resource_name, resource_name)
retrieve_mappings(resource_name) ==
    CASE resource_name = Compute -> Instance
      [] resource_name = Image -> Image
      [] resource_name = Volume -> Volume
      [] resource_name = NetworkBwOut -> InstanceNetworkInterface
      [] resource_name = NetworkBwIn -> InstanceNetworkInterface
      [] OTHER -> resource_name

\* metrics_mappings[resource_name], defined for the mapped names only
metrics_mappings(resource_name) ==
    CASE resource_name = Compute ->
            << <<"vcpus", "max">>, <<"memory", "max">>, <<"cpu", "max">>,
               <<"disk.root.size", "max">>, <<"disk.ephemeral.size", "max">> >>
      [] resource_name = Image ->
            << <<"image.size", "max">>, <<"image.download", "max">>,
               <<"image.serve", "max">> >>
      [] resource_name = Volume -> << <<"volume.size", "max">> >>
      [] resource_name = NetworkBwOut -> << <<"network.outgoing.bytes", "max">> >>
      [] resource_name = NetworkBwIn -> << <<"network.incoming.bytes", "max">> >>

default_unit == [int |-> TRUE, qty |-> 1, key |-> "", unit |-> "unknown"]

\* units_mappings.get(resource_name, default_unit); qty is either an int
\* (int = TRUE) or the name of the record field holding the quantity
units_mappings(resource_name) ==
    CASE resource_name = Compute ->
            [int |-> TRUE, qty |-> 1, key |-> "", unit |-> "instance"]
      [] resource_name = Image ->
            [int |-> FALSE, qty |-> 0, key |-> "image.size", unit |-> "MB"]
      [] resource_name = Volume ->
            [int |-> FALSE, qty |-> 0, key |-> "volume.size", unit |-> "GB"]
      [] resource_name = NetworkBwOut ->
            [int |-> FALSE, qty |-> 0, key |-> "network.outgoing.bytes", unit |-> "MB"]
      [] resource_name = NetworkBwIn ->
            [int |-> FALSE, qty |-> 0, key |-> "network.incoming.bytes", unit |-> "MB"]
      [] OTHER -> default_unit

---------------------------------------------------------------------------
(* Resource Resolver *)

\* if q_filter: false for None, {} and []
QTruthy(q_filter) ==
    \/ DictTruthy(q_filter)
    \/ (q_filter.k = "list" /\ Len(q_filter.items) > 0)

\* with_revision argument of line 204
WithRevisionNever(resource_id, reverse_revision) == FALSE
WithRevision(resource_id, reverse_revision) ==
    StrTruthy(resource_id) /\ ~reverse_revision

\* lines 201-216: the list query_parameters
query_parameters(resource_type, start, end, resource_id, project_id, reverse_revision, q_filter) ==
    _generate_time_filter(start, end, WithRevision(resource_id, reverse_revision))
    \o (IF StrTruthy(resource_id)
        THEN <<gen_filter("=", "and", <<<<"id", resource_id>>>>)>>
        ELSE <<gen_filter("=", "and", <<<<"type", resource_type>>>>)>>)
    \o (IF StrTruthy(project_id)
        THEN <<gen_filter("=", "and", <<<<"project_id", project_id>>>>)>>
        ELSE <<>>)
    \o (IF QTruthy(q_filter) THEN <<q_filter>> ELSE <<>>)

\* resource_type argument of the search, lines 224-225
SearchKind(resource_type, end, resource_id) ==
    IF Truthy(end) /\ ~StrTruthy(resource_id) THEN Generic ELSE resource_type

\* line 228: the call returns what one search (or its fallback) found
SingleSnapshotNoNot(end, resource_id) == StrTruthy(resource_id) \/ Truthy(end)
SingleSnapshot(end, resource_id) == StrTruthy(resource_id) \/ ~Truthy(end)

\* line 229: the call recurses with reverse_revision=True when the search
\* returned nothing
NeedsFallback(resources) == Len(resources) = 0

\* resource.get('id', '')
ResourceId(resource) == IF "id" \in DOMAIN resource THEN resource.id ELSE ""

\* what a call gave: out is "ok" or the name of the exception raised, value
\* is what was returned, args the arguments of the exception, log the
\* searches the call sent to the store, in order, each with its answer
Returned(value, log) == [out |-> "ok", value |-> value, args |-> <<>>, log |-> log]
Raised(exc, args, log) == [out |-> exc, value |-> <<>>, args |-> args, log |-> log]

\* the element of a one-element set: {e(x) : x \in {v}} computes v once
\* and names it x in e, as an assignment to a local variable does
TheOne(S) == CHOOSE y \in S : TRUE

RECURSIVE get_resources(_, _, _, _, _, _, _, _, _)
RECURSIVE populate(_, _, _, _, _, _)

\* st is the store the searches run against; depth counts the frames of
\* get_resources on the stack, the interpreter raising RecursionError
\* when a call would exceed its limit
get_resources(st, resource_name, start, end, resource_id, project_id, reverse_revision, q_filter, depth) ==
    IF depth > MaxDepth THEN Raised("RecursionError", <<>>, <<>>)
    ELSE
    LET resource_type == retrieve_mappings(resource_name)
        query == extend_filter(
                    query_parameters(resource_type, start, end, resource_id,
                                     project_id, reverse_revision, q_filter),
                    "and")
        opts == SearchOpts(resource_id, reverse_revision)
        kind == SearchKind(resource_type, end, resource_id)
    IN  TheOne({
            IF SingleSnapshot(end, resource_id)
            THEN IF NeedsFallback(sent.rows)
                 THEN [get_resources(st, resource_type, start, end,
                                     resource_id, "", TRUE, NotAFilter,
                                     depth + 1)
                       EXCEPT !.log = <<sent>> \o @]
                 ELSE Returned(sent.rows, <<sent>>)
            ELSE [populate(st, resource_type, start, end, sent.rows, depth)
                  EXCEPT !.log = <<sent>> \o @] :
            sent \in {[resource_type |-> kind, query |-> query, opts |-> opts,
                       rows |-> Search(st, kind, query, opts)]}})

\* populated_resource of line 239-243: element [0] of the list the
\* recursive call returned
PopulatedResource(found) == found[1]

\* lines 237-245: the loop over the resources of the current-set search,
\* stopped by the first exception
populate(st, resource_type, start, end, resources, depth) ==
    IF Len(resources) = 0 THEN Returned(<<>>, <<>>)
    ELSE TheOne({
        IF sub.out # "ok" THEN sub
        ELSE IF Len(sub.value) = 0 THEN Raised("IndexError", <<>>, sub.log)
        ELSE TheOne({
                IF rest.out # "ok"
                THEN [rest EXCEPT !.log = sub.log \o @]
                ELSE Returned(<<PopulatedResource(sub.value)>> \o rest.value,
                              sub.log \o rest.log) :
                rest \in {populate(st, resource_type, start, end,
                                   Tail(resources), depth)}}) :
        sub \in {get_resources(st, resource_type, start, end,
                               ResourceId(Head(resources)), "", FALSE,
                               NotAFilter, depth + 1)}})

---------------------------------------------------------------------------
(* Metric Expander *)

\* resource[key] = v
SetKey(resource, key, v) ==
    [x \in DOMAIN resource \cup {key} |-> IF x = key THEN v ELSE resource[x]]

\* resource.pop(key, None)
PopKey(resource, key) ==
    [x \in DOMAIN resource \ {key} |-> resource[x]]

\* self._conn.metric.get_measures(metric=, start=, stop=, aggregation=): the
\* points [point_date, granularity, value] of the handle from start on and
\* before stop (every point from start on when stop is unset)
get_measures(meas, metric, start, stop, aggregation) ==
    SelectSeq(meas[metric], LAMBDA pt :
        pt[1] >= start /\ (stop = None \/ pt[1] < stop))

\* line 161: resource[name] = values[0][2]
FirstValue(resource, name, values) == SetKey(resource, name, values[1][3])

\* lines 162-163, except IndexError: resource[name] = None
OnIndexErrorSkip(resource, name) == resource
OnIndexError(resource, name) == SetKey(resource, name, None)

\* lines 164-166, except KeyError: pass
OnKeyError(resource, name) == resource

\* lines 150-166 for one resource: the loop over mappings
RECURSIVE expand_resource(_, _, _, _, _)
expand_resource(meas, resource, mappings, start, end) ==
    IF Len(mappings) = 0 THEN resource
    ELSE
    LET name == Head(mappings)[1]
        aggregate == Head(mappings)[2]
        metrics == IF "metrics" \in DOMAIN resource THEN resource.metrics ELSE <<>>
        next ==
            IF name \notin DOMAIN metrics
            THEN OnKeyError(resource, name)
            ELSE LET values == get_measures(meas, metrics[name], start, end,
                                            aggregate)
                 IN  IF Len(values) = 0
                     THEN OnIndexError(resource, name)
                     ELSE FirstValue(resource, name, values)
    IN  expand_resource(meas, next, Tail(mappings), start, end)

_expand_metrics(meas, resources, mappings, start, end) ==
    [i \in 1..Len(resources) |->
        expand_resource(meas, resources[i], mappings, start, end)]

---------------------------------------------------------------------------
(* Normalizer and Orchestrator *)

\* t_gnocchi.strip_resource_data: the billing-relevant attributes, the
\* store's identifier under resource_id; metrics is kept for the expander
strip_resource_data(resource_name, resource) ==
    [resource_id |-> resource.id, project_id |-> resource.project_id,
     metrics |-> resource.metrics]

\* t_cloudkitty.format_item
format_item(desc, unit, qty) == [desc |-> desc, unit |-> unit, qty |-> qty]

\* t_cloudkitty.format_service
format_service(resource_name, items) == [service |-> resource_name, items |-> items]

\* lines 267-283 for one resource: "ok" with the item, or the exception
format_resource(meas, resource_name, resource, start, end, unit) ==
    LET stripped == strip_resource_data(resource_name, resource)
    IN  IF resource_name \notin MappedNames
        THEN Raised("KeyError", <<resource_name>>, <<>>)  \* metrics_mappings[...]
        ELSE
        LET expanded == _expand_metrics(meas, <<stripped>>,
                                        metrics_mappings(resource_name),
                                        start, end)[1]
            resource_data == PopKey(expanded, "metrics")
        IN  IF unit.int
            THEN Returned(SetKey(format_item(resource_data, unit.unit, unit.qty),
                                 "resource_id", resource_data.resource_id), <<>>)
            ELSE IF unit.key \notin DOMAIN resource_data
            THEN Raised("KeyError", <<unit.key>>, <<>>)   \* resource_data[qty]
            ELSE IF resource_data[unit.key] = None
            THEN Raised("TypeError", <<>>, <<>>)          \* decimal.Decimal(None)
            ELSE Returned(SetKey(format_item(resource_data, unit.unit,
                                             resource_data[unit.key]),
                                 "resource_id", resource_data.resource_id), <<>>)

\* lines 266-284: the loop, stopped by the first exception
RECURSIVE format_resources(_, _, _, _, _, _)
format_resources(meas, resource_name, resources, start, end, unit) ==
    IF Len(resources) = 0 THEN Returned(<<>>, <<>>)
    ELSE TheOne({
        IF one.out # "ok" THEN one
        ELSE TheOne({
                IF rest.out # "ok" THEN rest
                ELSE Returned(<<one.value>> \o rest.value, <<>>) :
                rest \in {format_resources(meas, resource_name,
                                           Tail(resources), start, end, unit)}}) :
        one \in {format_resource(meas, resource_name, Head(resources),
                                 start, end, unit)}})

\* reverse_revision is accepted and not passed on (lines 258-264)
resource_info(st, meas, resource_name, start, end, resource_id, project_id, reverse_revision, q_filter) ==
    LET unit == units_mappings(resource_name)
    IN  TheOne({
            IF resources.out # "ok" THEN resources
            ELSE [format_resources(meas, resource_name, resources.value,
                                   start, end, unit)
                  EXCEPT !.log = resources.log] :
            resources \in {get_resources(st, resource_name, start, end,
                                         resource_id, project_id, FALSE,
                                         q_filter, 1)}})

generic_retrieve(st, meas, resource_name, start, end, project_id, q_filter) ==
    TheOne({
        IF resources.out # "ok" THEN resources
        ELSE IF Len(resources.value) = 0
        THEN Raised("NoDataCollected", <<collector_name, resource_name>>,
                    resources.log)
        ELSE Returned(format_service(resource_name, resources.value),
                      resources.log) :
        resources \in {resource_info(st, meas, resource_name, start, end, "",
                                     project_id, FALSE, q_filter)}})

\* resource.replace('_', '.')
Replace(resource) ==
    [i \in 1..Len(resource) |-> IF resource[i] = "_" THEN "." ELSE resource[i]]

retrieve(st, meas, resource, start, end, project_id, q_filter) ==
    LET trans_resource == Replace(resource)
    IN  generic_retrieve(st, meas, trans_resource, start, end, project_id, q_filter)

---------------------------------------------------------------------------
(* Inputs: the stores and the arguments the calls are made with *)

NoCall == [op |-> "none"]
NoRet == [out |-> "none", value |-> <<>>, args |-> <<>>, log |-> <<>>]
NoMeasures == [h \in {} |-> <<>>]
NoMetrics == [n \in {} |-> <<>>]

Projects == {"p1", "p2"}

\* the windows [start, end] with start <= end, and those without end
Windows(T) ==
    {w \in (1..T) \X ({None} \cup (1..T)) : w[2] = None \/ w[1] <= w[2]}

\* a resource's history: started at s, ended at e (or still running),
\* last revised at rs; hist says whether the revision made at s is kept
\* beside the current one
Shapes(T) ==
    {sh \in [s : 1..T, e : {None} \cup (1..T), rs : 1..T, hist : BOOLEAN] :
        /\ sh.e = None \/ sh.e >= sh.s
        /\ sh.rs >= sh.s
        /\ sh.hist => sh.rs > sh.s}

ResourceRows(id, type, project_id, sh, metrics) ==
    (IF sh.hist
     THEN <<Row(id, type, project_id, sh.s, None, sh.s, sh.rs, metrics)>>
     ELSE <<>>)
    \o <<Row(id, type, project_id, sh.s, sh.e, sh.rs, None, metrics)>>

\* caller-given extra filters: none, or "still running"
QFilters == {NotAFilter, Cmp("=", "ended_at", None)}

---------------------------------------------------------------------------
(* Specification of the filter builder *)

FilterA == Cmp("=", "id", "r1")
FilterB == Cmp(">=", "started_at", 1)

FilterItems ==
    {Empty, FilterA, FilterB, Log("or", <<FilterA, FilterB>>), NotAFilter,
     List(<<>>), List(<<FilterA>>), List(<<Empty, FilterA>>),
     List(<<FilterA, FilterB>>)}

RECURSIVE SeqsUpTo(_, _)
SeqsUpTo(S, n) ==
    IF n = 0 THEN {<<>>}
    ELSE LET shorter == SeqsUpTo(S, n - 1)
         IN  shorter \cup {Append(q, x) : q \in {t \in shorter : Len(t) = n - 1}, x \in S}

Kwargs == {<<>>, <<<<"id", "r1">>>>, <<<<"id", "r1">>, <<"project_id", "p1">>>>}

InitFilter ==
    /\ store = <<>>
    /\ measures = NoMeasures
    /\ pc = "idle"
    /\ call = NoCall
    /\ ret = NoRet

ExtendFilterCall ==
    /\ pc = "idle"
    /\ \E args \in SeqsUpTo(FilterItems, MaxArgs), lop \in {"and", "or"} :
        /\ call' = [op |-> "extend_filter", args |-> args, lop |-> lop]
        /\ ret' = Returned(extend_filter(args, lop), <<>>)
    /\ pc' = "done"
    /\ UNCHANGED <<store, measures>>

GenFilterCall ==
    /\ pc = "idle"
    /\ \E cop \in {"=", ">=", "<="}, lop \in {"and", "or"}, kwargs \in Kwargs :
        /\ call' = [op |-> "gen_filter", cop |-> cop, lop |-> lop, kwargs |-> kwargs]
        /\ ret' = Returned(gen_filter(cop, lop, kwargs), <<>>)
    /\ pc' = "done"
    /\ UNCHANGED <<store, measures>>

NextFilter == ExtendFilterCall \/ GenFilterCall

SpecFilter == InitFilter /\ [][NextFilter]_vars

---------------------------------------------------------------------------
(* Specification of the time filter: one resource, one window *)

InitTime ==
    /\ \E sh \in {x \in Shapes(MaxFilterTime) : ~x.hist} :
        store = <<Row("r1", Instance, "p1", sh.s, sh.e, sh.rs, None, NoMetrics)>>
    /\ measures = NoMeasures
    /\ pc = "idle"
    /\ call = NoCall
    /\ ret = NoRet

TimeFilterCall ==
    /\ pc = "idle"
    /\ \E w \in Windows(MaxFilterTime), with_revision \in BOOLEAN :
        /\ call' = [op |-> "_generate_time_filter", start |-> w[1], end |-> w[2],
                    with_revision |-> with_revision]
        /\ ret' = Returned(_generate_time_filter(w[1], w[2], with_revision), <<>>)
    /\ pc' = "done"
    /\ UNCHANGED <<store, measures>>

NextTime == TimeFilterCall

SpecTime == InitTime /\ [][NextTime]_vars

---------------------------------------------------------------------------
(* Specification of the resolver: get_resources against a store of up to
   two resources *)

R1Options ==
    {<<>>} \cup {ResourceRows("r1", Instance, p, sh, NoMetrics) :
                    p \in Projects, sh \in Shapes(MaxTime)}

R2Options ==
    {<<>>} \cup {ResourceRows("r2", t, "p2", sh, NoMetrics) :
                    t \in {Instance, Volume},
                    sh \in {x \in Shapes(MaxTime) : ~x.hist}}

Init ==
    /\ \E a \in R1Options, b \in R2Options : store = a \o b
    /\ measures = NoMeasures
    /\ pc = "idle"
    /\ call = NoCall
    /\ ret = NoRet

GetResourcesCall ==
    /\ pc = "idle"
    /\ \E w \in Windows(MaxTime), resource_id \in {"", "r1"},
          project_id \in {"", "p1"}, reverse_revision \in BOOLEAN,
          q_filter \in QFilters :
        /\ call' = [op |-> "get_resources", resource_name |-> Compute,
                    start |-> w[1], end |-> w[2], resource_id |-> resource_id,
                    project_id |-> project_id,
                    reverse_revision |-> reverse_revision, q_filter |-> q_filter]
        /\ ret' = get_resources(store, Compute, w[1], w[2], resource_id,
                                project_id, reverse_revision, q_filter, 1)
    /\ pc' = "done"
    /\ UNCHANGED <<store, measures>>

Next == GetResourcesCall

Spec == Init /\ [][Next]_vars

---------------------------------------------------------------------------
(* Specification of the metric expander: the records of one or two
   resources, their handles and the measures behind the handles *)

MetricUniverse == {"vcpus", "volume.size"}

Handle(id, name) == <<id, name>>

MetricsOf(id, names) == [n \in names |-> Handle(id, n)]

\* the measures a handle may hold: none, one point, or two points
PointLists ==
    {<<>>}
    \cup {<< <<t, 1, v>> >> : t \in 1..MaxTime, v \in 1..MaxValue}
    \cup {<< <<t, 1, v>>, <<t + 1, 1, v + 1>> >> :
            t \in 1..(MaxTime - 1), v \in 1..(MaxValue - 1)}

\* the second resource's handles all hold the same measures
SecondOptions ==
    {<<>>, <<[names |-> {}, points |-> <<>>]>>}
    \cup {<<[names |-> H, points |-> pl]>> :
            H \in (SUBSET MetricUniverse) \ {{}}, pl \in {<<>>, << <<1, 1, 1>> >>}}

ExpandTypes == {Compute, Image, Volume}

InitExpand ==
    /\ \E H \in SUBSET MetricUniverse, second \in SecondOptions :
        \E m \in [{Handle("r1", n) : n \in H} -> PointLists] :
            /\ store = <<Row("r1", Instance, "p1", 1, None, 1, None,
                             MetricsOf("r1", H))>>
                       \o [i \in 1..Len(second) |->
                            Row("r2", Instance, "p1", 1, None, 1, None,
                                MetricsOf("r2", second[i].names))]
            /\ measures =
                [h \in DOMAIN m \cup
                       {Handle("r2", n) : n \in UNION {second[i].names : i \in 1..Len(second)}} |->
                    IF h \in DOMAIN m THEN m[h] ELSE second[1].points]
    /\ pc = "idle"
    /\ call = NoCall
    /\ ret = NoRet

ExpandMetricsCall ==
    /\ pc = "idle"
    /\ \E w \in Windows(MaxTime), t \in ExpandTypes :
        /\ call' = [op |-> "_expand_metrics", resources |-> store,
                    mappings |-> metrics_mappings(t),
                    start |-> w[1], end |-> w[2]]
        /\ ret' = Returned(_expand_metrics(measures, store, metrics_mappings(t),
                                           w[1], w[2]), <<>>)
    /\ pc' = "done"
    /\ UNCHANGED <<store, measures>>

NextExpand == ExpandMetricsCall

SpecExpand == InitExpand /\ [][NextExpand]_vars

---------------------------------------------------------------------------
(* Specification of the pipeline: resource_info and retrieve against a
   store of at most one resource *)

Foo == <<"foo">>
NetworkBwOutCaller == <<"network", "_", "bw", "_", "out">>

\* the handles a resource of a type may carry
HandleSets(type) ==
    CASE type = Instance -> {{}, {"vcpus"}, {"vcpus", "memory"}}
      [] type = Volume -> {{}, {"volume.size"}}
      [] type = InstanceNetworkInterface -> {{}, {"network.outgoing.bytes"}}
      [] OTHER -> {{}}

InfoTypes == {Instance, Volume, InstanceNetworkInterface, Foo}

InitInfo ==
    /\ \/ /\ store = <<>>
          /\ measures = NoMeasures
       \/ \E t \in InfoTypes, p \in Projects,
             sh \in {x \in Shapes(MaxTime) : ~x.hist} :
            \E H \in HandleSets(t) :
                \E m \in [{Handle("r1", n) : n \in H} ->
                            {<<>>, << <<sh.s, 1, MaxValue>> >>}] :
                    /\ store = ResourceRows("r1", t, p, sh, MetricsOf("r1", H))
                    /\ measures = m
    /\ pc = "idle"
    /\ call = NoCall
    /\ ret = NoRet

CallerNames == {Compute, Volume, NetworkBwOutCaller, Foo}

ResourceInfoCall ==
    /\ pc = "idle"
    /\ \E name \in {Replace(n) : n \in CallerNames}, w \in Windows(MaxTime),
          resource_id \in {"", "r1"}, project_id \in {"", "p1"} :
        /\ call' = [op |-> "resource_info", resource_name |-> name,
                    start |-> w[1], end |-> w[2], resource_id |-> resource_id,
                    project_id |-> project_id, q_filter |-> NotAFilter]
        /\ ret' = resource_info(store, measures, name, w[1], w[2], resource_id,
                                project_id, FALSE, NotAFilter)
    /\ pc' = "done"
    /\ UNCHANGED <<store, measures>>

RetrieveCall ==
    /\ pc = "idle"
    /\ \E resource \in CallerNames, w \in Windows(MaxTime),
          project_id \in {"", "p1"}, q_filter \in QFilters :
        /\ call' = [op |-> "retrieve", resource |-> resource,
                    resource_name |-> Replace(resource),
                    start |-> w[1], end |-> w[2], resource_id |-> "",
                    project_id |-> project_id, q_filter |-> q_filter]
        /\ ret' = retrieve(store, measures, resource, w[1], w[2], project_id,
                           q_filter)
    /\ pc' = "done"
    /\ UNCHANGED <<store, measures>>

NextInfo == ResourceInfoCall \/ RetrieveCall

SpecInfo == InitInfo /\ [][NextInfo]_vars

---------------------------------------------------------------------------
(* Properties *)

Done(op) == pc = "done" /\ call.op = op

\* the single-snapshot answer for one identifier and the window of the call
SingleFor(id) ==
    get_resources(store, call.resource_name, call.start, call.end, id, "",
                  FALSE, NotAFilter, 1)

\* the query of a search names the constraint cop(field, value) at its top
\* level
Constrains(query, c) ==
    \/ query = c
    \/ query.k = "log" /\ query.op = "and"
         /\ \E i \in 1..Len(query.children) : query.children[i] = c

\* C1: a single-snapshot resolve (resource_id set, or end absent) sends at
\* most two searches, the second with reverse_revision=True, and then
\* returns; it returns the empty list when both searches found nothing.
C1_FallbackAtMostOnce ==
    (Done("get_resources") /\ SingleSnapshot(call.end, call.resource_id)) =>
        /\ ret.out = "ok"
        /\ Len(ret.log) <= 2
        /\ (\A i \in 1..Len(ret.log) : Len(ret.log[i].rows) = 0) => ret.value = <<>>

\* no resource of the store matches the query of a retrieve call
NoResourceMatches ==
    LET resource_type == retrieve_mappings(call.resource_name)
        query == extend_filter(
                    query_parameters(resource_type, call.start, call.end, "",
                                     call.project_id, FALSE, call.q_filter),
                    "and")
    IN  \A i \in 1..Len(store) :
            ~(store[i].type = resource_type /\ Matches(query, store[i]))

\* C2: retrieve on a store in which no resource matches the query, with or
\* without end, raises NoDataCollected carrying the collector name and the
\* resource name.
C2_NoMatchRaisesNoDataCollected ==
    (Done("retrieve") /\ NoResourceMatches) =>
        /\ ret.out = "NoDataCollected"
        /\ ret.args = <<collector_name, call.resource_name>>

\* C3: range resolution (resource_id absent, end present) returns one
\* snapshot per resource of the current-set search (generic kind, no
\* history), in the order of that search, each equal to the first result of
\* single-snapshot resolution for that identifier and the same window.
C3_RangeIsSinglePerCurrent ==
    (Done("get_resources") /\ ~StrTruthy(call.resource_id) /\ Truthy(call.end)) =>
        /\ ret.out = "ok"
        /\ Len(ret.log) >= 1
        /\ ret.log[1].resource_type = Generic
        /\ ~ret.log[1].opts.history
        /\ LET current == ret.log[1].rows
           IN  /\ Len(ret.value) = Len(current)
               /\ \A i \in 1..Len(current) :
                    /\ ret.value[i].id = current[i].id
                    /\ SingleFor(current[i].id).out = "ok"
                    /\ Len(SingleFor(current[i].id).value) >= 1
                    /\ ret.value[i] = SingleFor(current[i].id).value[1]

\* a range resolution of two resources, the first of which is returned in a
\* revision other than its current one
C3_Witness ==
    /\ Done("get_resources") /\ ~StrTruthy(call.resource_id) /\ Truthy(call.end)
    /\ ret.out = "ok"
    /\ Len(ret.value) = 2
    /\ ret.value[1] # ret.log[1].rows[1]

\* the validity interval of a row intersects the window
Intersects(row, start, end) ==
    /\ row.started_at <= end
    /\ row.ended_at = None \/ row.ended_at >= start

\* C4: with end present, a resource satisfies every clause of
\* _generate_time_filter(start, end) if and only if its validity interval
\* intersects [start, end].
C4_TimeFilterIffIntersects ==
    (Done("_generate_time_filter") /\ Truthy(call.end) /\ ~call.with_revision) =>
        ((\A i \in 1..Len(ret.value) : Matches(ret.value[i], store[1]))
            <=> Intersects(store[1], call.start, call.end))

\* C5: after _expand_metrics, for every record and every configured
\* (metric_name, aggregation): no handle, no key; a handle without data
\* points, the key with None; otherwise the key with the value of the first
\* data point.
C5_ExpandThreeCases ==
    Done("_expand_metrics") =>
        /\ Len(ret.value) = Len(call.resources)
        /\ \A i \in 1..Len(call.resources), j \in 1..Len(call.mappings) :
            LET name == call.mappings[j][1]
                before == call.resources[i]
                after == ret.value[i]
            IN  IF name \notin DOMAIN before.metrics
                THEN name \notin DOMAIN after
                ELSE LET points == get_measures(measures, before.metrics[name],
                                                call.start, call.end,
                                                call.mappings[j][2])
                     IN  /\ name \in DOMAIN after
                         /\ after[name] = IF Len(points) = 0 THEN None
                                          ELSE points[1][3]

\* one call in which the three cases happen: a value taken from the first
\* of two points, a None, and an absent key
C5_Witness ==
    /\ Done("_expand_metrics")
    /\ Len(ret.value) = 2
    /\ "vcpus" \in DOMAIN ret.value[1]
    /\ ret.value[1]["vcpus"] # None
    /\ Len(measures[Handle("r1", "vcpus")]) = 2
    /\ "vcpus" \in DOMAIN ret.value[2]
    /\ ret.value[2]["vcpus"] = None
    /\ \E j \in 1..Len(call.mappings) :
            call.mappings[j][1] \notin DOMAIN ret.value[1]

\* what the resolver gives the call of resource_info or retrieve
Resolved ==
    get_resources(store, call.resource_name, call.start, call.end,
                  call.resource_id, call.project_id, FALSE, call.q_filter, 1)

\* the items a finished resource_info or retrieve call produced
Items == IF call.op = "retrieve" THEN ret.value.items ELSE ret.value

\* a resolved resource lacks the handle of a configured metric, or has the
\* handle and no data point in the window
SomeMetricAbsent ==
    \E i \in 1..Len(Resolved.value) :
        \E j \in 1..Len(metrics_mappings(call.resource_name)) :
            LET name == metrics_mappings(call.resource_name)[j][1]
                metrics == Resolved.value[i].metrics
            IN  \/ name \notin DOMAIN metrics
                \/ Len(get_measures(measures, metrics[name], call.start,
                                    call.end, "max")) = 0

\* C6: for a resource type of the static tables, when a resolved resource
\* lacks a metric handle or its handle has no data in the window,
\* resource_info/retrieve completes without raising and emits one item
\* per resolved resource.
C6_MetricAbsenceIsNoError ==
    (/\ pc = "done" /\ call.op \in {"resource_info", "retrieve"}
     /\ call.resource_name \in MappedNames
     /\ Resolved.out = "ok" /\ Len(Resolved.value) >= 1
     /\ SomeMetricAbsent) =>
        /\ ret.out = "ok"
        /\ Len(Items) = Len(Resolved.value)

\* C7: for a resource type absent from the static tables, the type name
\* goes unchanged to the store and, when at least one resource is resolved,
\* resource_info emits one item per resolved record with unit "unknown" and
\* quantity 1, without raising.
C7_UnmappedTypeUsesDefaults ==
    (/\ Done("resource_info")
     /\ call.resource_name \notin MappedNames
     /\ Resolved.out = "ok" /\ Len(Resolved.value) >= 1) =>
        /\ ret.out = "ok"
        /\ Len(ret.value) = Len(Resolved.value)
        /\ \A i \in 1..Len(ret.value) :
            ret.value[i].unit = "unknown" /\ ret.value[i].qty = 1

\* the rows of the store holding the identifier of the call
RevisionsOfId == SelectSeq(store, LAMBDA r : r.id = call.resource_id)

\* the resource of the call has a single revision, of the requested type,
\* which satisfies the query of the call apart from its revision clause
SingleMatchingRevision ==
    LET resource_type == retrieve_mappings(call.resource_name)
        query == extend_filter(
                    query_parameters(resource_type, call.start, call.end,
                                     call.resource_id, call.project_id, TRUE,
                                     call.q_filter),
                    "and")
    IN  /\ StrTruthy(call.resource_id)
        /\ ~call.reverse_revision
        /\ Len(RevisionsOfId) = 1
        /\ RevisionsOfId[1].type = resource_type
        /\ Matches(query, RevisionsOfId[1])

\* the answer came from the fallback: the first search (descending, with the
\* revision clause) found nothing and the retry (ascending, without it)
\* found the revision
ViaFallback ==
    /\ ret.out = "ok"
    /\ ret.value = RevisionsOfId
    /\ Len(ret.log) = 2
    /\ ret.log[1].opts.sorts = "revision_start:desc"
    /\ Len(ret.log[1].rows) = 0
    /\ ret.log[2].opts.sorts = "revision_start:asc"
    /\ ret.log[2].rows = RevisionsOfId
    /\ \A t \in 1..MaxTime :
            ~Constrains(ret.log[2].query, Cmp("<=", "revision_start", t))

\* the answer came from the first search
Directly ==
    /\ ret.out = "ok"
    /\ ret.value = RevisionsOfId
    /\ Len(ret.log) = 1

\* C8 as stated: a resource_id whose single matching revision starts
\* strictly after the window start is resolved through the fallback.
C8_AfterStartViaFallback ==
    (/\ Done("get_resources") /\ SingleMatchingRevision
     /\ RevisionsOfId[1].revision_start > call.start) => ViaFallback

\* C8 amended: the fallback is what resolves a single matching revision
\* that starts strictly after the window end (end present); one that starts
\* at or before the end, or any when end is absent, is returned by the
\* first search.
C8_AfterEndViaFallback ==
    (Done("get_resources") /\ SingleMatchingRevision) =>
        IF Truthy(call.end) /\ RevisionsOfId[1].revision_start > call.end
        THEN ViaFallback
        ELSE Directly

C8_Witness ==
    /\ Done("get_resources") /\ SingleMatchingRevision
    /\ Truthy(call.end) /\ RevisionsOfId[1].revision_start > call.end
    /\ Len(ret.log) = 2
    /\ Len(ret.value) = 1

\* the nodes extend_filter is to keep: the non-empty filters among the
\* arguments and inside the list arguments, in argument order
RECURSIVE NonEmptyNodes(_)
NonEmptyNodes(args) ==
    IF Len(args) = 0 THEN <<>>
    ELSE LET cur == Head(args)
         IN  (IF DictTruthy(cur) THEN <<cur>>
              ELSE IF cur.k = "list" THEN SelectSeq(cur.items, DictTruthy)
              ELSE <<>>)
             \o NonEmptyNodes(Tail(args))

\* C9: extend_filter returns the empty filter when no non-empty node occurs
\* among the inputs (list inputs included), the node itself when exactly
\* one remains, and otherwise a logical node under the given operator whose
\* children are exactly the non-empty nodes in argument order.
C9_CombineKeepsNonEmptyNodes ==
    Done("extend_filter") =>
        LET nodes == NonEmptyNodes(call.args)
        IN  IF Len(nodes) = 0 THEN ret.value = Empty
            ELSE IF Len(nodes) = 1 THEN ret.value = nodes[1]
            ELSE /\ ret.value.k = "log"
                 /\ ret.value.op = call.lop
                 /\ ret.value.children = nodes

\* C10: with project_id set, every record get_resources returns belongs to
\* that project.
C10_ResultsBelongToProject ==
    (Done("get_resources") /\ StrTruthy(call.project_id) /\ ret.out = "ok") =>
        \A i \in 1..Len(ret.value) : ret.value[i].project_id = call.project_id

====
